---- MODULE Spec2Model ----
(***************************************************************************)
(* Decodificador PRT-7 (src/decodificador_prt7.cpp): the circular rotor,   *)
(* the doubly linked payload list, the line parser, the serial line reader *)
(* and the session loop of main().                                         *)
(*                                                                         *)
(* Characters are C chars, modelled by their ASCII codes; a C string is    *)
(* the sequence of its characters before the terminating NUL.              *)
(***************************************************************************)
EXTENDS Integers, Sequences, FiniteSets, TLC

----------------------------------------------------------------------------
(* Characters                                                              *)

\* Printable ASCII, codes 32..126, used to write character literals ("dq", "bs"
\* and "bt" stand for the double quote, the backslash and the backtick, which
\* no literal uses).
ASCII ==
  << " ", "!", "dq", "#", "$", "%", "&", "'", "(", ")", "*", "+", ",", "-", ".", "/",
     "0", "1", "2", "3", "4", "5", "6", "7", "8", "9", ":", ";", "<", "=", ">", "?",
     "@", "A", "B", "C", "D", "E", "F", "G", "H", "I", "J", "K", "L", "M", "N", "O",
     "P", "Q", "R", "S", "T", "U", "V", "W", "X", "Y", "Z", "[", "bs", "]", "^", "_",
     "bt", "a", "b", "c", "d", "e", "f", "g", "h", "i", "j", "k", "l", "m", "n", "o",
     "p", "q", "r", "s", "t", "u", "v", "w", "x", "y", "z", "{", "|", "}", "~" >>

\* The code of a character literal, as in 'A'.
Ord(s) == 31 + (CHOOSE i \in 1..Len(ASCII) : ASCII[i] = s)

\* A string literal: the sequence of the codes of its characters.
Cadena(ss) == [i \in 1..Len(ss) |-> Ord(ss[i])]

NUL == 0
LF == 10
CR == 13

\* The character literals of the code and of the properties.
CH_A == Ord("A")
CH_Z == Ord("Z")
CH_0 == Ord("0")
CH_9 == Ord("9")
CH_COMA == Ord(",")
CH_L == Ord("L")
CH_M == Ord("M")
CH_S == Ord("S")
CH_p == Ord("p")
CH_a == Ord("a")
CH_ESPACIO == Ord(" ")
CH_MAS == Ord("+")
CH_MENOS == Ord("-")
CH_CORCHETE_ABRE == Ord("[")
CH_CORCHETE_CIERRA == Ord("]")
CH_5 == Ord("5")
CH_ARROBA == Ord("@")
CH_z == Ord("z")
CH_B == Ord("B")
CH_C == Ord("C")
CH_D == Ord("D")
CH_Q == Ord("Q")
CH_Y == Ord("Y")
CH_N == Ord("N")

\* str[i] of a C string (0-based); the terminator is read at i = Len(str).
\* The code never reads past the terminator.
CharAt(str, i) == IF i < Len(str) THEN str[i + 1] ELSE NUL

\* &str[k]: the C string that starts k characters into str.
Desde(str, k) == IF k >= Len(str) THEN << >> ELSE SubSeq(str, k + 1, Len(str))

\* The null pointer; nodes are addressed from 1 in allocation order.
NULO == 0

----------------------------------------------------------------------------
(* RotorDeMapeo                                                            *)

\* The constructor's literal with 'Y' typed twice and no 'Z'.
alfabetoSinZ ==
  Cadena(<< "A", "B", "C", "D", "E", "F", "G", "H", "I", "J", "K", "L", "M",
            "N", "O", "P", "Q", "R", "S", "T", "U", "V", "W", "X", "Y", "Y" >>)

alfabeto ==
  Cadena(<< "A", "B", "C", "D", "E", "F", "G", "H", "I", "J", "K", "L", "M",
            "N", "O", "P", "Q", "R", "S", "T", "U", "V", "W", "X", "Y", "Z" >>)

NodoRotor(c) == [dato |-> c, siguiente |-> NULO, previo |-> NULO]

\* The constructor's for loop over alfabeto, then the closing of the circle.
RECURSIVE RotorBucle(_, _, _, _)
RotorBucle(r, i, primero, anterior) ==
  IF CharAt(alfabeto, i) = NUL
  THEN IF anterior # NULO /\ primero # NULO
       THEN [r EXCEPT !.nodos[anterior].siguiente = primero,
                      !.nodos[primero].previo = anterior]
       ELSE r
  ELSE LET nuevo == Len(r.nodos) + 1
           creado == Append(r.nodos, NodoRotor(CharAt(alfabeto, i)))
           enlazado == IF anterior # NULO
                       THEN [creado EXCEPT ![anterior].siguiente = nuevo,
                                           ![nuevo].previo = anterior]
                       ELSE creado
       IN RotorBucle([nodos |-> enlazado,
                      cabeza |-> IF primero = NULO THEN nuevo ELSE r.cabeza,
                      tamanio |-> r.tamanio + 1],
                     i + 1,
                     IF primero = NULO THEN nuevo ELSE primero,
                     nuevo)

\* The constructor without the closing of the circle.
RotorSinCerrar ==
  LET r == RotorBucle([nodos |-> << >>, cabeza |-> NULO, tamanio |-> 0], 0, NULO, NULO)
  IN [r EXCEPT !.nodos[Len(r.nodos)].siguiente = NULO,
               !.nodos[1].previo = NULO]

RotorDeMapeo == RotorBucle([nodos |-> << >>, cabeza |-> NULO, tamanio |-> 0], 0, NULO, NULO)

\* C's a % b for b > 0: the remainder of the division that truncates toward
\* zero, which has the sign of a (written without -a, which INT_MIN lacks).
CRem(a, b) == IF a >= 0 \/ a % b = 0 THEN a % b ELSE (a % b) - b

\* k times p = p->siguiente.
RECURSIVE Adelante(_, _, _)
Adelante(nodos, p, k) == IF k <= 0 THEN p ELSE Adelante(nodos, nodos[p].siguiente, k - 1)

\* Atras with siguiente followed in place of previo.
AtrasPorSiguiente(nodos, p, k) == Adelante(nodos, p, k)

\* k times p = p->previo.
RECURSIVE Atras(_, _, _)
Atras(nodos, p, k) == IF k <= 0 THEN p ELSE Atras(nodos, nodos[p].previo, k - 1)

\* rotar without its branch for pasos < 0.
rotarSoloAdelante(r, n) ==
  IF r.cabeza = NULO \/ r.tamanio = 0 THEN r
  ELSE LET pasos == CRem(n, r.tamanio)
       IN IF pasos > 0 THEN [r EXCEPT !.cabeza = Adelante(r.nodos, r.cabeza, pasos)]
          ELSE r

\* rotar with the forward loop's condition i <= pasos.
rotarUnPasoMas(r, n) ==
  IF r.cabeza = NULO \/ r.tamanio = 0 THEN r
  ELSE LET pasos == CRem(n, r.tamanio)
       IN IF pasos > 0 THEN [r EXCEPT !.cabeza = Adelante(r.nodos, r.cabeza, pasos + 1)]
          ELSE IF pasos < 0 THEN [r EXCEPT !.cabeza = Atras(r.nodos, r.cabeza, -pasos)]
          ELSE r

\* rotar with pasos = n % (tamanio - 1).
rotarModuloCorto(r, n) ==
  IF r.cabeza = NULO \/ r.tamanio = 0 THEN r
  ELSE LET pasos == CRem(n, r.tamanio - 1)
       IN IF pasos > 0 THEN [r EXCEPT !.cabeza = Adelante(r.nodos, r.cabeza, pasos)]
          ELSE IF pasos < 0 THEN [r EXCEPT !.cabeza = Atras(r.nodos, r.cabeza, -pasos)]
          ELSE r

rotar(r, n) ==
  IF r.cabeza = NULO \/ r.tamanio = 0 THEN r
  ELSE LET pasos == CRem(n, r.tamanio)
       IN IF pasos > 0 THEN [r EXCEPT !.cabeza = Adelante(r.nodos, r.cabeza, pasos)]
          ELSE IF pasos < 0 THEN [r EXCEPT !.cabeza = Atras(r.nodos, r.cabeza, -pasos)]
          ELSE r

\* getMapeo with the loop condition i <= posicion.
getMapeoUnPasoMas(r, in) ==
  IF in < CH_A \/ in > CH_Z THEN in
  ELSE LET posicion == in - CH_A
       IN r.nodos[Adelante(r.nodos, r.cabeza, posicion + 1)].dato

\* getMapeo without the test in < 'A'.
getMapeoSinCotaInferior(r, in) ==
  IF in > CH_Z THEN in
  ELSE LET posicion == in - CH_A
       IN r.nodos[Adelante(r.nodos, r.cabeza, posicion)].dato

getMapeo(r, in) ==
  IF in < CH_A \/ in > CH_Z THEN in
  ELSE LET posicion == in - CH_A
       IN r.nodos[Adelante(r.nodos, r.cabeza, posicion)].dato

getCabeza(r) == IF r.cabeza # NULO THEN r.nodos[r.cabeza].dato ELSE CH_A

----------------------------------------------------------------------------
(* ListaDeCarga                                                            *)

NodoCarga(c) == [dato |-> c, siguiente |-> NULO, previo |-> NULO]

ListaDeCarga == [nodos |-> << >>, cabeza |-> NULO, cola |-> NULO, tamanio |-> 0]

\* insertarAlFinal without "cola = nuevo;" in the else branch.
insertarAlFinalSinCola(l, dato) ==
  LET nuevo == Len(l.nodos) + 1
      creado == Append(l.nodos, NodoCarga(dato))
  IN IF l.cabeza = NULO
     THEN [nodos |-> creado, cabeza |-> nuevo, cola |-> nuevo, tamanio |-> l.tamanio + 1]
     ELSE [nodos |-> [creado EXCEPT ![l.cola].siguiente = nuevo, ![nuevo].previo = l.cola],
           cabeza |-> l.cabeza,
           cola |-> l.cola,
           tamanio |-> l.tamanio + 1]

insertarAlFinal(l, dato) ==
  LET nuevo == Len(l.nodos) + 1
      creado == Append(l.nodos, NodoCarga(dato))
  IN IF l.cabeza = NULO
     THEN [nodos |-> creado, cabeza |-> nuevo, cola |-> nuevo, tamanio |-> l.tamanio + 1]
     ELSE [nodos |-> [creado EXCEPT ![l.cola].siguiente = nuevo, ![nuevo].previo = l.cola],
           cabeza |-> l.cabeza,
           cola |-> nuevo,
           tamanio |-> l.tamanio + 1]

\* The characters written while walking siguiente from actual to the null pointer.
RECURSIVE Recorrer(_, _)
Recorrer(l, actual) ==
  IF actual = NULO THEN << >>
  ELSE << l.nodos[actual].dato >> \o Recorrer(l, l.nodos[actual].siguiente)

\* What imprimirMensaje writes.
imprimirMensaje(l) == Recorrer(l, l.cabeza)

\* What imprimirConFormato writes after "Mensaje: ": one [c] per element.
imprimirConFormato(l) == [i \in 1..Len(Recorrer(l, l.cabeza)) |->
                            << CH_CORCHETE_ABRE, Recorrer(l, l.cabeza)[i], CH_CORCHETE_CIERRA >>]

----------------------------------------------------------------------------
(* Frames                                                                  *)

\* A TramaBase pointer: a TramaLoad, a TramaMap, or the null pointer.
TramaLoad(c) == [tipo |-> "TramaLoad", caracter |-> c, rotacion |-> 0]
TramaMap(n) == [tipo |-> "TramaMap", caracter |-> NUL, rotacion |-> n]
nullptr == [tipo |-> "nullptr", caracter |-> NUL, rotacion |-> 0]

\* The lines written to std::cout, one record per kind of line.
Traza(tipo, original, decodificado, rotacion, cabeza, fragmentos) ==
  [tipo |-> tipo, original |-> original, decodificado |-> decodificado,
   rotacion |-> rotacion, cabeza |-> cabeza, fragmentos |-> fragmentos]

SinTraza == Traza("ninguna", NUL, NUL, 0, NUL, << >>)

\* TramaLoad::procesar: the new list, the rotor and the line written.
TramaLoadProcesar(caracter, carga, rotor) ==
  LET decodificado == getMapeo(rotor, caracter)
      cargada == insertarAlFinal(carga, decodificado)
  IN [carga |-> cargada,
      rotor |-> rotor,
      traza |-> Traza("fragmento", caracter, decodificado, 0, NUL,
                      imprimirConFormato(cargada))]

\* TramaMap::procesar that also inserts the new head's symbol in the list.
TramaMapProcesarConCarga(rotacion, carga, rotor) ==
  LET rotado == rotar(rotor, rotacion)
  IN [carga |-> insertarAlFinal(carga, getCabeza(rotado)),
      rotor |-> rotado,
      traza |-> Traza("rotando", NUL, NUL, rotacion, getCabeza(rotado), << >>)]

\* TramaMap::procesar: the list, the rotated rotor and the line written.
TramaMapProcesar(rotacion, carga, rotor) ==
  LET rotado == rotar(rotor, rotacion)
  IN [carga |-> carga,
      rotor |-> rotado,
      traza |-> Traza("rotando", NUL, NUL, rotacion, getCabeza(rotado), << >>)]

\* The virtual call trama->procesar(carga, rotor).
procesar(trama, carga, rotor) ==
  IF trama.tipo = "TramaLoad"
  THEN TramaLoadProcesar(trama.caracter, carga, rotor)
  ELSE TramaMapProcesar(trama.rotacion, carga, rotor)

----------------------------------------------------------------------------
(* String utilities and the line parser                                    *)

RECURSIVE sonIgualesDesde(_, _, _)
sonIgualesDesde(str1, str2, i) ==
  IF CharAt(str1, i) # NUL /\ CharAt(str2, i) # NUL
  THEN IF CharAt(str1, i) # CharAt(str2, i) THEN FALSE
       ELSE sonIgualesDesde(str1, str2, i + 1)
  ELSE CharAt(str1, i) = CharAt(str2, i)

\* sonIguales with its last line "return str2[i] == '\0';": a prefix test.
RECURSIVE sonIgualesPrefijoDesde(_, _, _)
sonIgualesPrefijoDesde(str1, str2, i) ==
  IF CharAt(str1, i) # NUL /\ CharAt(str2, i) # NUL
  THEN IF CharAt(str1, i) # CharAt(str2, i) THEN FALSE
       ELSE sonIgualesPrefijoDesde(str1, str2, i + 1)
  ELSE CharAt(str2, i) = NUL

sonIgualesPrefijo(str1, str2) == sonIgualesPrefijoDesde(str1, str2, 0)

sonIguales(str1, str2) == sonIgualesDesde(str1, str2, 0)

\* The range of int (32 bits, two's complement).
INT_MAX == 2147483647
INT_MIN == -INT_MAX - 1

\* The int that resultado * 10 + digito wraps around to, computed on the two
\* 16-bit halves of resultado's 32 bits.
MulAdd32(resultado, digito) ==
  LET bajo == (resultado % 65536) * 10 + digito
      alto == (((resultado \div 65536) % 65536) * 10 + (bajo \div 65536)) % 65536
  IN (IF alto >= 32768 THEN alto - 65536 ELSE alto) * 65536 + (bajo % 65536)

\* The while loop of aEntero from index i: the value of resultado when the loop
\* ends, computed with wrap-around, and whether resultado * 10 + digit
\* overflowed int on the way.
RECURSIVE aEnteroBucle(_, _, _, _)
aEnteroBucle(str, i, resultado, desbordado) ==
  IF CharAt(str, i) >= CH_0 /\ CharAt(str, i) <= CH_9
  THEN LET digito == CharAt(str, i) - CH_0
       IN aEnteroBucle(str, i + 1, MulAdd32(resultado, digito),
                       desbordado \/ resultado < 0
                                  \/ resultado > (INT_MAX - digito) \div 10)
  ELSE [resultado |-> resultado, desbordado |-> desbordado]

\* The values aEntero may return. Signed int overflow is undefined behaviour:
\* after it the function may return the wrapped value or any other int, of
\* which the extremes and zero are taken.
aEntero(str) ==
  LET signo == IF CharAt(str, 0) = CH_MENOS THEN -1 ELSE 1
      i == IF CharAt(str, 0) = CH_MENOS \/ CharAt(str, 0) = CH_MAS THEN 1 ELSE 0
      fin == aEnteroBucle(str, i, 0, FALSE)
  IN IF fin.desbordado
     THEN {IF fin.resultado = INT_MIN THEN INT_MIN ELSE fin.resultado * signo,
           0, INT_MAX, INT_MIN}
     ELSE {fin.resultado * signo}

\* parsearTrama without "if (linea[1] != ',') return nullptr;".
parsearTramaSinComa(linea) ==
  LET tipo == CharAt(linea, 0)
  IN IF tipo = CH_L
     THEN LET caracter ==
                IF CharAt(linea, 2) = CH_S /\ CharAt(linea, 3) = CH_p
                   /\ CharAt(linea, 4) = CH_a
                THEN CH_ESPACIO
                ELSE CharAt(linea, 2)
          IN {TramaLoad(caracter)}
     ELSE IF tipo = CH_M
     THEN {TramaMap(rotacion) : rotacion \in aEntero(Desde(linea, 2))}
     ELSE {nullptr}

\* parsearTrama with the space test reduced to linea[2] == 'S'.
parsearTramaSoloS(linea) ==
  LET tipo == CharAt(linea, 0)
  IN IF CharAt(linea, 1) # CH_COMA THEN {nullptr}
     ELSE IF tipo = CH_L
     THEN LET caracter ==
                IF CharAt(linea, 2) = CH_S
                THEN CH_ESPACIO
                ELSE CharAt(linea, 2)
          IN {TramaLoad(caracter)}
     ELSE IF tipo = CH_M
     THEN {TramaMap(rotacion) : rotacion \in aEntero(Desde(linea, 2))}
     ELSE {nullptr}

\* The frames parsearTrama may return for linea (several only where aEntero's
\* behaviour is undefined).
parsearTrama(linea) ==
  LET tipo == CharAt(linea, 0)
  IN IF CharAt(linea, 1) # CH_COMA THEN {nullptr}
     ELSE IF tipo = CH_L
     THEN LET caracter ==
                IF CharAt(linea, 2) = CH_S /\ CharAt(linea, 3) = CH_p
                   /\ CharAt(linea, 4) = CH_a
                THEN CH_ESPACIO
                ELSE CharAt(linea, 2)
          IN {TramaLoad(caracter)}
     ELSE IF tipo = CH_M
     THEN {TramaMap(rotacion) : rotacion \in aEntero(Desde(linea, 2))}
     ELSE {nullptr}

----------------------------------------------------------------------------
(* The serial line reader                                                  *)

\* The serial port's pending input is the sequence of the results of the
\* read(fd, &c, 1) calls to come: a code > 0 is a byte read (read returns 1),
\* SIN_DATOS is a read that returns 0 (timeout or end of data) and ERROR_LECTURA
\* one that returns -1. Once the sequence is used up, read returns 0.
SIN_DATOS == 0
ERROR_LECTURA == -1

\* The while loop of leerLineaSerial with pos = Len(buffer): whether there is
\* data, the characters stored in buffer, the input left and the return
\* statement that ended the call. main reads buffer only after a call that
\* returned true, which has stored the terminator at pos.
RECURSIVE leerLineaBucle(_, _, _)
leerLineaBucle(entrada, buffer, maxLen) ==
  LET pos == Len(buffer)
      Retorno(hay, resto, porque) ==
        [hayDatos |-> hay, buffer |-> buffer, resto |-> resto, retorno |-> porque]
  IN IF ~(pos < maxLen - 1) THEN Retorno(pos > 0, entrada, "lleno")
     ELSE LET c == IF entrada = << >> THEN SIN_DATOS ELSE Head(entrada)
              n == IF c > 0 THEN 1 ELSE c
              resto == IF entrada = << >> THEN << >> ELSE Tail(entrada)
          IN IF n > 0
             THEN IF c = LF THEN Retorno(pos > 0, resto, "linea")
                  ELSE IF c # CR THEN leerLineaBucle(resto, Append(buffer, c), maxLen)
                  ELSE leerLineaBucle(resto, buffer, maxLen)
             ELSE IF n = 0
             THEN IF pos > 0 THEN Retorno(TRUE, resto, "sin datos")
                  ELSE Retorno(FALSE, resto, "sin datos")
             ELSE Retorno(FALSE, resto, "error")

leerLineaSerial(entrada, maxLen) == leerLineaBucle(entrada, << >>, maxLen)

----------------------------------------------------------------------------
(* Bounds and inputs                                                       *)

\* The number of bursts the device writes to the port in a session.
MaxRafagas == 3

\* rotar is called directly with every n of -MaxGiro..MaxGiro in any state,
\* and with every n of -MaxPrimerGiro..MaxPrimerGiro on the rotor as built.
MaxGiro == 7
MaxPrimerGiro == 60

\* sizeof buffer in main.
TamBuffer == 256

\* The literals "FIN" and "SISTEMA PRT-7 ACTIVO" of main.
FIN_ == << "F", "I", "N" >>
FIN == Cadena(FIN_)

SALUDO_ ==
  << "S", "I", "S", "T", "E", "M", "A", " ", "P", "R", "T", "-", "7", " ",
     "A", "C", "T", "I", "V", "O" >>
\* The greeting literal ended by a carriage return.
SALUDO_CON_CR == Cadena(SALUDO_) \o << CR >>

SALUDO == Cadena(SALUDO_)

\* A line of text followed by its terminator.
Linea(ss) == Cadena(ss) \o << LF >>

\* The bursts the device may write: Load and Map frames, some ended by CR LF;
\* Map frames that carry no number, one after the other; a Map frame whose
\* number does not fit an int; malformed lines and near misses of FIN, one
\* after the other; the greeting; FIN with a frame written after it; a frame
\* cut in two by a read that returns 0; and an empty line, a failed read and a
\* frame that never gets its terminator.
Rafagas ==
  << Linea(<< "L", ",", "A" >>),
     Linea(<< "L", ",", "B" >>),
     Linea(<< "L", ",", "S", "p", "a", "c", "e" >>),
     Linea(<< "L", ",", "S", "p" >>),
     Cadena(<< "L", ",", "5" >>) \o << CR, LF >>,
     Linea(<< "M", ",", "+", "3" >>),
     Cadena(<< "M", ",", "-", "1" >>) \o << CR, LF >>,
     Linea(<< "M", "," >>) \o Linea(<< "M", ",", "-" >>)
       \o Linea(<< "M", ",", "a", "b", "c" >>),
     Linea(<< "M", ",", "2", "1", "4", "7", "4", "8", "3", "6", "4", "8" >>),
     Linea(<< "L", "A" >>) \o Linea(<< "X", ",", "5" >>)
       \o Linea(<< "F", "I", "N", "A", "L" >>) \o Linea(<< "F", "I" >>),
     Linea(SALUDO_),
     Linea(FIN_) \o Linea(<< "L", ",", "A" >>),
     Cadena(<< "L", "," >>) \o << SIN_DATOS >> \o Linea(<< "Z" >>),
     << LF, ERROR_LECTURA >> \o Cadena(<< "L", ",", "Z" >>) >>

\* rotar is called directly with these: every n of -MaxGiro..MaxGiro, the
\* multiples of the ring's size and their neighbours, the largest multiples an
\* int holds and the extremes of int.
Giros ==
  (-MaxGiro..MaxGiro)
    \cup {Len(alfabeto) - 1, Len(alfabeto), Len(alfabeto) + 1, 2 * Len(alfabeto),
          1 - Len(alfabeto), -Len(alfabeto), -1 - Len(alfabeto), -2 * Len(alfabeto),
          (INT_MAX \div Len(alfabeto)) * Len(alfabeto),
          -((INT_MAX \div Len(alfabeto)) * Len(alfabeto)),
          INT_MAX, INT_MIN + 1, INT_MIN}

\* The first rotation of a rotor as built is called with these as well.
PrimerosGiros == Giros \cup (-MaxPrimerGiro..MaxPrimerGiro)

\* The characters getMapeo is called with directly: the letters, the
\* characters next to them, a digit, a space, lowercase letters, NUL and the
\* extremes of (signed) char.
Consultas ==
  (CH_A..CH_Z)
    \cup {CH_ARROBA, CH_CORCHETE_ABRE, CH_5, CH_ESPACIO, CH_a, CH_z, NUL, -128, 127}

----------------------------------------------------------------------------
(* State                                                                   *)

VARIABLES
  miListaDeCarga,   \* main's ListaDeCarga
  miRotorDeMapeo,   \* main's RotorDeMapeo
  buffer,           \* main's buffer, as a C string
  hayDatos,         \* what the last leerLineaSerial returned
  tramasRecibidas,  \* main's counter of frames processed
  pc,               \* where main is: "leer", "despachar", "reporte", "fin"
  entrada,          \* the port's pending input (results of the reads to come)
  traza,            \* the last line written to std::cout by the loop
  mensaje,          \* what imprimirMensaje wrote in the final report
  retorno,          \* history: the return statement that ended the last read
  enviadas,         \* history: the bursts written by the device (indices)
  recibidas,        \* history: the lines main got with hayDatos true
  procesadas,       \* history: the frames processed, with the head at the time
  hist,             \* history: the last two direct calls of rotar
  consulta          \* history: the last direct call of getMapeo

vars == << miListaDeCarga, miRotorDeMapeo, buffer, hayDatos, tramasRecibidas, pc,
           entrada, traza, mensaje, retorno, enviadas, recibidas, procesadas,
           hist, consulta >>

sesion == << buffer, hayDatos, tramasRecibidas, pc, entrada, traza, mensaje, retorno,
             enviadas, recibidas, procesadas >>

SinConsulta == [hecha |-> FALSE, in |-> NUL, out |-> NUL]

\* main up to "Esperando tramas...": both structures built, the port open.
\* buffer is not initialised; it is not read before a read has filled it.
Init ==
  /\ miListaDeCarga = ListaDeCarga
  /\ miRotorDeMapeo = RotorDeMapeo
  /\ buffer = << >>
  /\ hayDatos = FALSE
  /\ tramasRecibidas = 0
  /\ pc = "leer"
  /\ entrada = << >>
  /\ traza = SinTraza
  /\ mensaje = << >>
  /\ retorno = "ninguno"
  /\ enviadas = << >>
  /\ recibidas = << >>
  /\ procesadas = << >>
  /\ hist = << >>
  /\ consulta = SinConsulta

----------------------------------------------------------------------------
(* The session: the device and main's loop                                 *)

\* The device writes burst i to the port once the port's input is used up.
Transmitir(i) ==
  /\ pc = "leer"
  /\ entrada = << >>
  /\ Len(enviadas) < MaxRafagas
  /\ entrada' = Rafagas[i]
  /\ enviadas' = Append(enviadas, i)
  /\ UNCHANGED << miListaDeCarga, miRotorDeMapeo, buffer, hayDatos, tramasRecibidas,
                  pc, traza, mensaje, retorno, recibidas, procesadas, hist, consulta >>

\* The head of the loop: hayDatos = leerLineaSerial(fd, buffer, 256).
Leer ==
  /\ pc = "leer"
  /\ LET r == leerLineaSerial(entrada, TamBuffer)
     IN /\ hayDatos' = r.hayDatos
        /\ buffer' = r.buffer
        /\ entrada' = r.resto
        /\ retorno' = r.retorno
        /\ recibidas' = IF r.hayDatos THEN Append(recibidas, r.buffer) ELSE recibidas
  /\ pc' = "despachar"
  /\ UNCHANGED << miListaDeCarga, miRotorDeMapeo, tramasRecibidas, traza, mensaje,
                  enviadas, procesadas, hist, consulta >>

\* if (hayDatos) is false: the loop goes round.
SinDatos ==
  /\ pc = "despachar"
  /\ ~hayDatos
  /\ pc' = "leer"
  /\ UNCHANGED << miListaDeCarga, miRotorDeMapeo, buffer, hayDatos, tramasRecibidas,
                  entrada, traza, mensaje, retorno, enviadas, recibidas, procesadas,
                  hist, consulta >>

\* 1. the FIN frame: break.
TramaFin ==
  /\ pc = "despachar"
  /\ hayDatos
  /\ sonIguales(buffer, FIN)
  /\ traza' = Traza("fin", NUL, NUL, 0, NUL, << >>)
  /\ pc' = "reporte"
  /\ UNCHANGED << miListaDeCarga, miRotorDeMapeo, buffer, hayDatos, tramasRecibidas,
                  entrada, mensaje, retorno, enviadas, recibidas, procesadas,
                  hist, consulta >>

\* 2. the greeting: continue.
Saludo ==
  /\ pc = "despachar"
  /\ hayDatos
  /\ ~sonIguales(buffer, FIN)
  /\ sonIguales(buffer, SALUDO)
  /\ traza' = Traza("control", NUL, NUL, 0, NUL, << >>)
  /\ pc' = "leer"
  /\ UNCHANGED << miListaDeCarga, miRotorDeMapeo, buffer, hayDatos, tramasRecibidas,
                  entrada, mensaje, retorno, enviadas, recibidas, procesadas,
                  hist, consulta >>

\* Neither: parsearTrama returned a frame, which is processed, deleted and counted.
Procesar ==
  /\ pc = "despachar"
  /\ hayDatos
  /\ ~sonIguales(buffer, FIN)
  /\ ~sonIguales(buffer, SALUDO)
  /\ \E trama \in parsearTrama(buffer) :
       /\ trama # nullptr
       /\ LET r == procesar(trama, miListaDeCarga, miRotorDeMapeo)
          IN /\ miListaDeCarga' = r.carga
             /\ miRotorDeMapeo' = r.rotor
             /\ traza' = r.traza
       /\ procesadas' = Append(procesadas,
                               [trama |-> trama, cabeza |-> getCabeza(miRotorDeMapeo)])
  /\ tramasRecibidas' = tramasRecibidas + 1
  /\ pc' = "leer"
  /\ UNCHANGED << buffer, hayDatos, entrada, mensaje, retorno, enviadas, recibidas,
                  hist, consulta >>

\* Neither: parsearTrama returned the null pointer.
MalFormada ==
  /\ pc = "despachar"
  /\ hayDatos
  /\ ~sonIguales(buffer, FIN)
  /\ ~sonIguales(buffer, SALUDO)
  /\ nullptr \in parsearTrama(buffer)
  /\ traza' = Traza("mal formada", NUL, NUL, 0, NUL, << >>)
  /\ pc' = "leer"
  /\ UNCHANGED << miListaDeCarga, miRotorDeMapeo, buffer, hayDatos, tramasRecibidas,
                  entrada, mensaje, retorno, enviadas, recibidas, procesadas,
                  hist, consulta >>

\* After the loop: the final report, then return 0.
Reporte ==
  /\ pc = "reporte"
  /\ mensaje' = imprimirMensaje(miListaDeCarga)
  /\ pc' = "fin"
  /\ UNCHANGED << miListaDeCarga, miRotorDeMapeo, buffer, hayDatos, tramasRecibidas,
                  entrada, traza, retorno, enviadas, recibidas, procesadas,
                  hist, consulta >>

Next ==
  \/ \E i \in 1..Len(Rafagas) : Transmitir(i)
  \/ Leer
  \/ SinDatos
  \/ TramaFin
  \/ Saludo
  \/ Procesar
  \/ MalFormada
  \/ Reporte

Spec == Init /\ [][Next]_vars

----------------------------------------------------------------------------
(* The rotor alone: rotar, getMapeo and Map frames applied directly         *)

RotarOp(n) ==
  /\ miRotorDeMapeo' = rotar(miRotorDeMapeo, n)
  /\ hist' = (IF Len(hist) < 2 THEN hist ELSE Tail(hist))
               \o << [n |-> n,
                      antes |-> getCabeza(miRotorDeMapeo),
                      despues |-> getCabeza(rotar(miRotorDeMapeo, n))] >>
  /\ consulta' = SinConsulta
  /\ UNCHANGED << miListaDeCarga >>
  /\ UNCHANGED sesion

\* The frame TramaMap(n) processed on the rotor; the head after is the one
\* the frame's trace reports.
MapOp(n) ==
  LET hecho == procesar(TramaMap(n), miListaDeCarga, miRotorDeMapeo)
  IN /\ miRotorDeMapeo' = hecho.rotor
     /\ miListaDeCarga' = hecho.carga
     /\ hist' = (IF Len(hist) < 2 THEN hist ELSE Tail(hist))
                  \o << [n |-> n,
                         antes |-> getCabeza(miRotorDeMapeo),
                         despues |-> hecho.traza.cabeza] >>
     /\ consulta' = SinConsulta
     /\ UNCHANGED sesion

\* getMapeo called on the rotor as built or after its first rotation.
ConsultaOp(c) ==
  /\ Len(hist) <= 1
  /\ consulta' = [hecha |-> TRUE, in |-> c, out |-> getMapeo(miRotorDeMapeo, c)]
  /\ UNCHANGED << miListaDeCarga, miRotorDeMapeo, hist >>
  /\ UNCHANGED sesion

NextRotor ==
  \/ \E n \in PrimerosGiros : hist = << >> /\ RotarOp(n)
  \/ \E n \in Giros : hist # << >> /\ RotarOp(n)
  \/ \E n \in Giros : MapOp(n)
  \/ \E c \in Consultas : ConsultaOp(c)

SpecRotor == Init /\ [][NextRotor]_vars

----------------------------------------------------------------------------
(* Properties of the session                                               *)

\* The elements of a list in the order they were inserted (nodes are
\* allocated in that order).
Contenido(l) == [i \in 1..Len(l.nodos) |-> l.nodos[i].dato]

\* The device has written all it will write and main has read all of it.
FinDeFlujo == entrada = << >> /\ Len(enviadas) = MaxRafagas

EsPrefijo(s, t) == Len(s) <= Len(t) /\ SubSeq(t, 1, Len(s)) = s

\* C1: when the stream has ended and leerLineaSerial reports no data (read
\* returned 0 or failed), main leaves the loop for the final report, as it
\* does on FIN.
C1_FinDeFlujoTermina ==
  [][(pc = "despachar" /\ ~hayDatos /\ retorno \in {"sin datos", "error"} /\ FinDeFlujo)
       => pc' = "reporte"]_vars

\* C2, in the states: once main has left the loop the last line it got is
\* FIN and no line before it was; the final message is the list's contents in
\* insertion order.
C2_Estados ==
  /\ pc \in {"reporte", "fin"} =>
       /\ recibidas # << >>
       /\ \A i \in 1..Len(recibidas) : (recibidas[i] = FIN) <=> (i = Len(recibidas))
  /\ pc = "fin" => mensaje = Contenido(miListaDeCarga)

\* C2, in the steps: a line equal to FIN takes main to the final report and
\* leaves the rotor, the list and the counter alone; any other line keeps
\* main in the loop; after the loop nothing more is read, parsed or applied.
C2_Pasos ==
  /\ (pc = "despachar" /\ hayDatos /\ buffer = FIN) =>
       /\ pc' = "reporte"
       /\ UNCHANGED << miListaDeCarga, miRotorDeMapeo, tramasRecibidas, procesadas >>
  /\ (pc = "despachar" /\ hayDatos /\ buffer # FIN) => pc' = "leer"
  /\ pc \in {"reporte", "fin"} =>
       /\ pc' \in {"reporte", "fin"}
       /\ UNCHANGED << miListaDeCarga, miRotorDeMapeo, tramasRecibidas, procesadas,
                       buffer, entrada, recibidas >>

\* C2: a line exactly equal to FIN, and no other, stops the session loop;
\* nothing that follows it is parsed or applied, FIN itself changes neither
\* rotor nor list, and the final message is the list's contents in insertion
\* order at that moment.
C2_FinDetiene == [](C2_Estados) /\ [][C2_Pasos]_vars

\* C2's case: the session ended on FIN with one character decoded, FINAL and
\* FI read before without ending it, and a frame after FIN left unread.
C2_Testigo ==
  /\ pc = "fin"
  /\ Len(mensaje) = 1
  /\ \E i \in 1..Len(recibidas) : recibidas[i] = Cadena(<< "F", "I", "N", "A", "L" >>)
  /\ \E i \in 1..Len(recibidas) : recibidas[i] = Cadena(<< "F", "I" >>)
  /\ entrada = Linea(<< "L", ",", "A" >>)

\* The characters of (signed) char that are not uppercase letters.
NoLetras == (-128..127) \ (CH_A..CH_Z)

UltimaProcesada == procesadas[Len(procesadas)]

\* This step processed a frame: the last of procesadas'.
SeProceso == Len(procesadas') = Len(procesadas) + 1

\* C6, in the steps: a Load frame that carries a character outside 'A'..'Z'
\* appends that character to the list.
C6_Pasos ==
  (SeProceso /\ UltimaProcesada'.trama.tipo = "TramaLoad"
             /\ UltimaProcesada'.trama.caracter \in NoLetras) =>
     /\ imprimirMensaje(miListaDeCarga') =
          Append(imprimirMensaje(miListaDeCarga), UltimaProcesada'.trama.caracter)
     /\ traza'.decodificado = UltimaProcesada'.trama.caracter

\* C6: in every state of the session getMapeo returns every character outside
\* 'A'..'Z' unchanged, and a Load frame that carries one appends it as it is.
C6_IdentidadFueraDeLetras ==
  /\ [](\A x \in NoLetras : getMapeo(miRotorDeMapeo, x) = x)
  /\ [][C6_Pasos]_vars

\* C6's case: with the head rotated to 'D', a Load of '5' appended '5' after
\* an earlier character.
C6_Testigo ==
  /\ procesadas # << >>
  /\ UltimaProcesada = [trama |-> TramaLoad(CH_5), cabeza |-> CH_D]
  /\ Len(imprimirMensaje(miListaDeCarga)) = 2
  /\ imprimirMensaje(miListaDeCarga)[2] = CH_5

\* The Load frames processed so far, in order.
Cargas == SelectSeq(procesadas, LAMBDA e : e.trama.tipo = "TramaLoad")

\* getMapeo on the ring with the head on the node that holds simbolo.
MapeoConCabeza(simbolo, c) ==
  getMapeo([miRotorDeMapeo EXCEPT
              !.cabeza = CHOOSE k \in 1..Len(miRotorDeMapeo.nodos) :
                           miRotorDeMapeo.nodos[k].dato = simbolo],
           c)

\* C7, in the states: one element per Load frame processed, in the order of
\* processing, each the mapping of the frame's character under the head of
\* that time; the rendering is the elements in insertion order.
C7_Estados ==
  /\ Len(imprimirMensaje(miListaDeCarga)) = Len(Cargas)
  /\ miListaDeCarga.tamanio = Len(Cargas)
  /\ \A i \in 1..Len(Cargas) :
       imprimirMensaje(miListaDeCarga)[i] =
         MapeoConCabeza(Cargas[i].cabeza, Cargas[i].trama.caracter)
  /\ imprimirMensaje(miListaDeCarga) = Contenido(miListaDeCarga)

\* C7, in the steps: what the list holds stays as it is, in place; a step
\* adds at most one element, at the end.
C7_Pasos ==
  /\ EsPrefijo(imprimirMensaje(miListaDeCarga), imprimirMensaje(miListaDeCarga'))
  /\ Len(imprimirMensaje(miListaDeCarga')) <= Len(imprimirMensaje(miListaDeCarga)) + 1

\* C7: the list holds exactly the mapped characters of the Load frames
\* processed, in order, and never changes, reorders or drops an element.
C7_ListaEnOrden == [](C7_Estados) /\ [][C7_Pasos]_vars

\* C7's case: the frames "L,A", "M,+3", "L,A" processed, the list holding
\* 'A' then 'D'.
C7_Testigo ==
  /\ Len(procesadas) = 3
  /\ procesadas[2].trama = TramaMap(3)
  /\ imprimirMensaje(miListaDeCarga) = << CH_A, CH_D >>
  /\ pc = "leer"

\* What C8 calls a malformed data line.
SinComaOTipo(linea) ==
  CharAt(linea, 1) # CH_COMA \/ CharAt(linea, 0) \notin {CH_L, CH_M}

\* C8: a data line without a comma in second place, or with a type other
\* than L and M, creates no frame: rotor, list and counter stay as they were,
\* the malformed-frame line is written and the loop reads on.
C8_MalFormadaNoCambia ==
  [][(pc = "despachar" /\ hayDatos /\ buffer # FIN /\ buffer # SALUDO
        /\ SinComaOTipo(buffer)) =>
       /\ UNCHANGED << miListaDeCarga, miRotorDeMapeo, tramasRecibidas, procesadas >>
       /\ traza'.tipo = "mal formada"
       /\ pc' = "leer"]_vars

\* C8's case: "X,5" reported as malformed after "LA" was, two frames having
\* been processed before.
C8_Testigo ==
  /\ pc = "leer"
  /\ traza.tipo = "mal formada"
  /\ buffer = Cadena(<< "X", ",", "5" >>)
  /\ \E i \in 1..Len(recibidas) : recibidas[i] = Cadena(<< "L", "A" >>)
  /\ tramasRecibidas = 2
  /\ getCabeza(miRotorDeMapeo) # CH_A

\* The longest run of decimal digits of str from index i, as digit values.
RECURSIVE Digitos(_, _)
Digitos(str, i) ==
  IF CharAt(str, i) \in CH_0..CH_9
  THEN << CharAt(str, i) - CH_0 >> \o Digitos(str, i + 1)
  ELSE << >>

RECURSIVE SinCeros(_)
SinCeros(ds) == IF ds # << >> /\ Head(ds) = 0 THEN SinCeros(Tail(ds)) ELSE ds

\* The digits a payload carries after its optional sign, leading zeros dropped.
DigitosDelPayload(str) ==
  SinCeros(Digitos(str, IF CharAt(str, 0) \in {CH_MAS, CH_MENOS} THEN 1 ELSE 0))

\* The decimal digits of -m for m <= 0, none for 0.
RECURSIVE DigitosDelNegativo(_)
DigitosDelNegativo(m) ==
  IF m = 0 THEN << >>
  ELSE DigitosDelNegativo((m - CRem(m, 10)) \div 10) \o << -CRem(m, 10) >>

\* n is the signed decimal value that str spells: the same digits, and the
\* sign of str if n is not zero.
EsValorDecimal(n, str) ==
  /\ DigitosDelNegativo(IF n > 0 THEN -n ELSE n) = DigitosDelPayload(str)
  /\ n < 0 => CharAt(str, 0) = CH_MENOS
  /\ n > 0 => CharAt(str, 0) # CH_MENOS

\* Digit sequences of equal length: a spells a greater number than b.
RECURSIVE MayorQue(_, _)
MayorQue(a, b) ==
  /\ a # << >>
  /\ \/ Head(a) > Head(b)
     \/ Head(a) = Head(b) /\ MayorQue(Tail(a), Tail(b))

\* The number str spells is greater than INT_MAX in absolute value.
FueraDeRango(str) ==
  LET ds == DigitosDelPayload(str)
      tope == DigitosDelNegativo(-INT_MAX)
  IN Len(ds) > Len(tope) \/ (Len(ds) = Len(tope) /\ MayorQue(ds, tope))

\* main is about to dispatch a line that starts with "M,".
LineaMap == pc = "despachar" /\ hayDatos /\ CharAt(buffer, 0) = CH_M /\ CharAt(buffer, 1) = CH_COMA

\* What C9 says of a step that dispatches "M,<payload>": a Map frame is
\* processed and counted, its amount the decimal value of the payload, and
\* with no digit in the payload the head stays.
C9_Paso ==
  /\ SeProceso
  /\ tramasRecibidas' = tramasRecibidas + 1
  /\ traza'.tipo = "rotando"
  /\ UltimaProcesada'.trama.tipo = "TramaMap"
  /\ EsValorDecimal(UltimaProcesada'.trama.rotacion, Desde(buffer, 2))
  /\ DigitosDelPayload(Desde(buffer, 2)) = << >> =>
       getCabeza(miRotorDeMapeo') = getCabeza(miRotorDeMapeo)

\* C9: a line "M,<payload>" rotates by the signed decimal value of the
\* payload (optional sign, then the longest run of digits); without a digit
\* the amount is 0 and the line is still a Map frame, applied and counted.
C9_MapValorDecimal == [][LineaMap => C9_Paso]_vars

\* C9 for the payloads whose value an int holds, where it does hold.
C9_EnRango == [][(LineaMap /\ ~FueraDeRango(Desde(buffer, 2))) => C9_Paso]_vars

\* C10: a Map line whose number does not fit an int rotates by 0: the frame's
\* amount is 0 and the head stays where it was.
C10_DesbordeDaCero ==
  [][(LineaMap /\ FueraDeRango(Desde(buffer, 2))) =>
       /\ SeProceso
       /\ UltimaProcesada'.trama = TramaMap(0)
       /\ getCabeza(miRotorDeMapeo') = getCabeza(miRotorDeMapeo)]_vars

----------------------------------------------------------------------------
\* main is about to dispatch a line that begins "L,".
LineaLoad ==
  /\ pc = "despachar" /\ hayDatos
  /\ CharAt(buffer, 0) = CH_L /\ CharAt(buffer, 1) = CH_COMA

\* The payload of the line in buffer begins with "Spa".
EmpiezaSpa == EsPrefijo(Cadena(<< "S", "p", "a" >>), Desde(buffer, 2))

\* C11: a line "L,<payload>" is processed as a Load frame. When the payload
\* begins with "Spa" the frame's character is a space, and a space is appended
\* to the list whatever the rotor's head; otherwise the frame's character is
\* the one character right after the comma and the rest of the payload is
\* ignored.
C11_CaracterDeLoad ==
  [][LineaLoad =>
       /\ SeProceso
       /\ UltimaProcesada'.trama.tipo = "TramaLoad"
       /\ IF EmpiezaSpa
          THEN /\ UltimaProcesada'.trama.caracter = CH_ESPACIO
               /\ imprimirMensaje(miListaDeCarga')
                    = Append(imprimirMensaje(miListaDeCarga), CH_ESPACIO)
          ELSE UltimaProcesada'.trama.caracter = CharAt(buffer, 2)]_vars

\* C11's case: with the head moved off 'A', "L,Space" has appended a space and
\* then "L,Sp" has loaded 'S'.
C11_Testigo ==
  /\ pc = "leer"
  /\ getCabeza(miRotorDeMapeo) # CH_A
  /\ Len(procesadas) = 3
  /\ recibidas[2] = Cadena(<< "L", ",", "S", "p", "a", "c", "e" >>)
  /\ procesadas[2].trama = TramaLoad(CH_ESPACIO)
  /\ recibidas[3] = Cadena(<< "L", ",", "S", "p" >>)
  /\ procesadas[3].trama = TramaLoad(CH_S)
  /\ imprimirMensaje(miListaDeCarga)
       = << CH_ESPACIO, getMapeo(miRotorDeMapeo, CH_S) >>

----------------------------------------------------------------------------

\* The lines "M,+3", "L,A" and "L,B" as main compares and parses them.
M_MAS_3 == Cadena(<< "M", ",", "+", "3" >>)
L_A == Cadena(<< "L", ",", "A" >>)
L_B == Cadena(<< "L", ",", "B" >>)

\* Every line received so far was parsed into a frame and processed.
TodasProcesadas == pc = "leer" /\ Len(procesadas) = Len(recibidas)

\* C12, in the states: getMapeo('A') is the head's symbol; after "M,+3" and
\* "L,A" on a fresh session the message is "D", and after "L,B" alone it is "B".
C12_Estados ==
  /\ getMapeo(miRotorDeMapeo, CH_A) = getCabeza(miRotorDeMapeo)
  /\ (TodasProcesadas /\ recibidas = << M_MAS_3, L_A >>)
       => imprimirMensaje(miListaDeCarga) = << CH_D >>
  /\ (TodasProcesadas /\ recibidas = << L_B >>)
       => imprimirMensaje(miListaDeCarga) = << CH_B >>

\* C12, in the steps: "L,A" dispatched when the last line written is the trace
\* of a Map frame appends the head symbol that trace reported.
C12_Pasos ==
  (LineaLoad /\ buffer = L_A /\ traza.tipo = "rotando") =>
     /\ SeProceso
     /\ imprimirMensaje(miListaDeCarga')
          = Append(imprimirMensaje(miListaDeCarga), traza.cabeza)

\* C12: Load 'A' appends the head's symbol.
C12_CargaDeAEsCabeza == [] C12_Estados /\ [][C12_Pasos]_vars

\* C12's case: "M,+3" reported the head 'D' and "L,A" has appended 'D'.
C12_Testigo ==
  /\ TodasProcesadas
  /\ recibidas = << M_MAS_3, L_A >>
  /\ procesadas[1].trama = TramaMap(3)
  /\ procesadas[2] = [trama |-> TramaLoad(CH_A), cabeza |-> CH_D]
  /\ traza.tipo = "fragmento" /\ traza.decodificado = CH_D
  /\ imprimirMensaje(miListaDeCarga) = << CH_D >>


\* The greeting as the device writes it, without its terminator.
LineaDeSaludo == Cadena(SALUDO_)

\* C14, in the steps: a greeting line is never parsed and is no frame: rotor,
\* list and counter stay as they are, the line written is the one for a
\* control line, and the loop goes to read the next line.
C14_Pasos ==
  (pc = "despachar" /\ hayDatos /\ buffer = LineaDeSaludo) =>
     /\ miRotorDeMapeo' = miRotorDeMapeo
     /\ miListaDeCarga' = miListaDeCarga
     /\ tramasRecibidas' = tramasRecibidas
     /\ procesadas' = procesadas
     /\ traza'.tipo = "control"
     /\ pc' = "leer"

\* C14, in the states: the stream greeting, "L,A", "FIN" ends with the final
\* message made of the one character the rotor as built maps 'A' to.
C14_Estados ==
  (pc = "fin" /\ recibidas = << LineaDeSaludo, L_A, FIN >>) =>
     /\ mensaje = << getMapeo(RotorDeMapeo, CH_A) >>
     /\ tramasRecibidas = 1

\* C14: the greeting is skipped wherever it occurs.
C14_SaludoOmitido == [] C14_Estados /\ [][C14_Pasos]_vars

\* C14's case: the greeting received after a rotation and a load, all three
\* dispatched, with two frames counted.
C14_Testigo ==
  /\ pc = "leer"
  /\ Len(recibidas) = 3 /\ recibidas[3] = LineaDeSaludo
  /\ traza.tipo = "control"
  /\ Len(procesadas) = 2 /\ tramasRecibidas = 2
  /\ procesadas[1].trama.tipo = "TramaMap"
  /\ getCabeza(miRotorDeMapeo) # CH_A
  /\ Len(imprimirMensaje(miListaDeCarga)) = 1


\* The node reached from node k by i steps along siguiente.
RECURSIVE PorSiguiente(_, _, _)
PorSiguiente(r, k, i) ==
  IF i = 0 THEN k ELSE PorSiguiente(r, r.nodos[k].siguiente, i - 1)

\* r is a closed ring of the 26 letters: 26 nodes, each letter in one of
\* them; from the node of 'A', siguiente visits 'B', 'C', ... 'Z' in that
\* order and then the node of 'A' again; previo undoes siguiente; and the head
\* is one of the nodes.
EsAnillo(r) ==
  LET N == Len(r.nodos)
  IN /\ N = 26 /\ r.tamanio = 26
     /\ \A c \in CH_A..CH_Z : Cardinality({k \in 1..N : r.nodos[k].dato = c}) = 1
     /\ \A k \in 1..N :
          /\ r.nodos[k].siguiente \in 1..N /\ r.nodos[k].previo \in 1..N
          /\ r.nodos[r.nodos[k].siguiente].previo = k
          /\ r.nodos[r.nodos[k].previo].siguiente = k
     /\ LET a == CHOOSE k \in 1..N : r.nodos[k].dato = CH_A
        IN /\ \A i \in 0..25 : r.nodos[PorSiguiente(r, a, i)].dato = CH_A + i
           /\ PorSiguiente(r, a, 26) = a
     /\ r.cabeza \in 1..N

\* The rotor the constructor builds is such a ring.
AnilloConstruido == EsAnillo(RotorDeMapeo)

\* The rotor has the nodes and links the constructor gave it, and its head is
\* one of those nodes.
MismoAnillo ==
  /\ miRotorDeMapeo.nodos = RotorDeMapeo.nodos
  /\ miRotorDeMapeo.tamanio = RotorDeMapeo.tamanio
  /\ miRotorDeMapeo.cabeza \in 1..Len(RotorDeMapeo.nodos)

\* C15: the rotor is always a closed ring of the 26 letters in alphabetical
\* order with previo the inverse of siguiente and the head on one of its
\* nodes, and no step changes its nodes or their links: only the head moves.
C15_AnilloCerrado ==
  [] (AnilloConstruido /\ MismoAnillo)
    /\ [][/\ miRotorDeMapeo'.nodos = miRotorDeMapeo.nodos
          /\ miRotorDeMapeo'.tamanio = miRotorDeMapeo.tamanio]_vars

\* C15's case: after a rotation forward past 'Z' or backward past 'A' and a
\* Load frame, the head is on another node of the same ring.
C15_Testigo ==
  /\ Len(procesadas) = 3
  /\ procesadas[1].trama.tipo = "TramaMap"
  /\ procesadas[2].trama.tipo = "TramaMap"
  /\ procesadas[3].trama.tipo = "TramaLoad"
  /\ getCabeza(miRotorDeMapeo) \in {CH_Y, CH_Z}
  /\ miRotorDeMapeo.nodos = RotorDeMapeo.nodos


\* C16, in the steps: a Map line leaves the list as it is; a Load line leaves
\* the rotor (and so its head) as it is and adds exactly one element at the
\* end of the list; every other step leaves both as they are.
C16_Pasos ==
  /\ LineaMap => miListaDeCarga' = miListaDeCarga
  /\ LineaLoad =>
       /\ miRotorDeMapeo' = miRotorDeMapeo
       /\ getCabeza(miRotorDeMapeo') = getCabeza(miRotorDeMapeo)
       /\ miListaDeCarga'.tamanio = miListaDeCarga.tamanio + 1
       /\ Len(imprimirMensaje(miListaDeCarga')) = Len(imprimirMensaje(miListaDeCarga)) + 1
       /\ EsPrefijo(imprimirMensaje(miListaDeCarga), imprimirMensaje(miListaDeCarga'))
  /\ ~(LineaMap \/ LineaLoad) =>
       /\ miRotorDeMapeo' = miRotorDeMapeo
       /\ miListaDeCarga' = miListaDeCarga

\* C16: Map frames change only the rotor, Load frames only the list, and
\* nothing else changes either.
C16_EfectoDeTramas == [][C16_Pasos]_vars

\* C16's case: a Map line that moved the head with one element in the list,
\* after a Load line that added that element with the head on 'A'.
C16_Testigo ==
  /\ pc = "leer"
  /\ Len(procesadas) = 2
  /\ procesadas[1].trama.tipo = "TramaLoad" /\ procesadas[1].cabeza = CH_A
  /\ procesadas[2].trama.tipo = "TramaMap" /\ procesadas[2].cabeza = CH_A
  /\ getCabeza(miRotorDeMapeo) # CH_A
  /\ miListaDeCarga.tamanio = 1
  /\ traza.tipo = "rotando"


\* The array model of the decoder: the 26 letters in an array, the index
\* headOffset of the letter that stands for 'A', and the message so far.
ArregloInicial == [headOffset |-> 0, acumulador |-> << >>]

\* The array model's letter for c under headOffset.
ArregloMapeo(headOffset, c) ==
  IF c \in CH_A..CH_Z THEN CH_A + (((c - CH_A) + headOffset) % 26) ELSE c

\* One frame applied to the array model.
ArregloPaso(m, trama) ==
  IF trama.tipo = "TramaMap"
  THEN [m EXCEPT !.headOffset = (m.headOffset + (trama.rotacion % 26)) % 26]
  ELSE [m EXCEPT !.acumulador = Append(m.acumulador,
                                       ArregloMapeo(m.headOffset, trama.caracter))]

\* The array model after the frames processed so far.
RECURSIVE ArregloTras(_)
ArregloTras(ps) ==
  IF ps = << >> THEN ArregloInicial
  ELSE ArregloPaso(ArregloTras(SubSeq(ps, 1, Len(ps) - 1)), ps[Len(ps)].trama)

\* On the constructor's ring, for every head and every letter, getMapeo gives
\* what the array model gives for the offset of the head's letter.
ParejasEquivalentes ==
  \A h \in 1..Len(RotorDeMapeo.nodos) : \A c \in CH_A..CH_Z :
     getMapeo([RotorDeMapeo EXCEPT !.cabeza = h], c)
       = ArregloMapeo(RotorDeMapeo.nodos[h].dato - CH_A, c)

\* C18: the linked ring and the array model run side by side on the frames
\* processed agree: headOffset is in 0..25 and is the offset of the head's
\* letter, getMapeo equals the array's mapping for every head and letter, and
\* the two messages are equal.
C18_RefinaArreglo ==
  LET m == ArregloTras(procesadas)
  IN /\ ParejasEquivalentes
     /\ MismoAnillo
     /\ m.headOffset \in 0..25
     /\ CH_A + m.headOffset = getCabeza(miRotorDeMapeo)
     /\ m.acumulador = imprimirMensaje(miListaDeCarga)

\* C18's case: after a Map frame by -1 and the Load frames of 'A' and 'B' both
\* models hold the message "ZA" and the offset 25.
C18_Testigo ==
  /\ pc = "leer"
  /\ Len(procesadas) = 3
  /\ procesadas[1].trama = TramaMap(-1)
  /\ procesadas[2].trama = TramaLoad(CH_A)
  /\ procesadas[3].trama = TramaLoad(CH_B)
  /\ ArregloTras(procesadas) = [headOffset |-> 25, acumulador |-> << CH_Z, CH_A >>]
  /\ imprimirMensaje(miListaDeCarga) = << CH_Z, CH_A >>


\* Everything the device has written so far, as read results in order.
RECURSIVE Flujo(_)
Flujo(es) == IF es = << >> THEN << >> ELSE Rafagas[Head(es)] \o Flujo(Tail(es))

\* The characters of a sequence of read results, carriage returns removed.
Texto(rs) == SelectSeq(rs, LAMBDA r : r > 0 /\ r # CR)

\* The lines of a text that have their terminator: the characters between
\* the start or a newline and the next newline.
RECURSIVE LineasTerminadas(_, _)
LineasTerminadas(texto, actual) ==
  IF texto = << >> THEN {}
  ELSE IF Head(texto) = LF
  THEN {actual} \cup LineasTerminadas(Tail(texto), << >>)
  ELSE LineasTerminadas(Tail(texto), Append(actual, Head(texto)))

\* C20: every line leerLineaSerial has handed to main's loop is a complete
\* line of the stream the device wrote: the characters between two
\* consecutive newlines, carriage returns removed.
C20_LineasCompletas ==
  \A i \in 1..Len(recibidas) :
     recibidas[i] \in LineasTerminadas(Texto(Flujo(enviadas)), << >>)


(* Properties of the rotor                                                 *)

Letras == CH_A..CH_Z

\* The letter with alphabet index i.
LetraDe(i) == CH_A + i

UltimoGiro == hist[Len(hist)]

\* C3: on the rotor as built (head 'A'), rotar(n) then getMapeo(c) of an
\* uppercase letter c gives the letter of index ((c - 'A') + (n mod 26)) mod 26,
\* mod being the remainder in 0..25.
C3_MapeoFormulaCerrada ==
  (Len(hist) = 1 /\ consulta.hecha /\ consulta.in \in Letras) =>
     /\ hist[1].antes = CH_A
     /\ consulta.out = LetraDe(((consulta.in - CH_A) + (hist[1].n % 26)) % 26)

\* C3's case: rotar(-27) on the rotor as built, then getMapeo('C'), which is 'B'.
C3_Testigo ==
  /\ Len(hist) = 1
  /\ hist[1].n = -27
  /\ consulta = [hecha |-> TRUE, in |-> CH_C, out |-> CH_B]

\* C4: rotar(n) then rotar(-n) leaves the head on the symbol it was on.
C4_IdaYVuelta ==
  (Len(hist) = 2 /\ hist[1].n # INT_MIN /\ hist[2].n = -hist[1].n) =>
     /\ hist[2].antes = hist[1].despues
     /\ hist[2].despues = hist[1].antes

\* C4's case: from head 'Y', rotar(5) to 'D' and rotar(-5) back to 'Y'.
C4_Testigo ==
  /\ Len(hist) = 2
  /\ hist[1] = [n |-> 5, antes |-> CH_Y, despues |-> CH_D]
  /\ hist[2].n = -5
  /\ getCabeza(miRotorDeMapeo) = CH_Y

\* C5: rotar(n) with n a multiple of 26 (0, 26, -26, ...) leaves the head
\* where it was.
C5_MultiploDe26 ==
  (hist # << >> /\ UltimoGiro.n % 26 = 0) =>
     /\ UltimoGiro.despues = UltimoGiro.antes
     /\ getCabeza(miRotorDeMapeo) = UltimoGiro.antes

\* C5's case: rotar(-26) called with the head on 'Q'.
C5_Testigo ==
  /\ hist # << >>
  /\ UltimoGiro = [n |-> -26, antes |-> CH_Q, despues |-> CH_Q]

\* a + b is a value of int.
SumaCabe(a, b) == IF a >= 0 THEN b <= INT_MAX - a ELSE b >= INT_MIN - a

\* The rotor with its head on the node that holds simbolo.
RotorCon(simbolo) ==
  [miRotorDeMapeo EXCEPT
     !.cabeza = CHOOSE k \in 1..Len(miRotorDeMapeo.nodos) :
                  miRotorDeMapeo.nodos[k].dato = simbolo]

\* C13: two Map frames (or rotar calls) in a row, by a and then by b, leave
\* the head (a + b) mod 26 places after the starting head, which is where b and
\* then a leave it, and where one rotar(a + b) leaves it when a + b is an int;
\* a and b are of either sign.
C13_MapAditivo ==
  Len(hist) = 2 =>
     LET a == hist[1].n
         b == hist[2].n
         inicio == RotorCon(hist[1].antes)
     IN /\ hist[2].antes = hist[1].despues
        /\ getCabeza(miRotorDeMapeo) = hist[2].despues
        /\ hist[2].despues
             = LetraDe(((hist[1].antes - CH_A) + (a % 26) + (b % 26)) % 26)
        /\ hist[2].despues = getCabeza(rotar(rotar(inicio, b), a))
        /\ SumaCabe(a, b) => hist[2].despues = getCabeza(rotar(inicio, a + b))

\* C13's case: from the head 'A', Map by -1 twice leaves the head on 'Y', as
\* rotar(-2) does.
C13_Testigo ==
  /\ hist = << [n |-> -1, antes |-> CH_A, despues |-> CH_Z],
               [n |-> -1, antes |-> CH_Z, despues |-> CH_Y] >>
  /\ getCabeza(miRotorDeMapeo) = CH_Y
  /\ getCabeza(rotar(RotorDeMapeo, -2)) = CH_Y

\* |n| mod 26 for an int n (INT_MIN included, whose |n| is no int).
AbsMod26(n) == IF n >= 0 THEN n % 26 ELSE (26 - (n % 26)) % 26

\* C17: rotar(n) moves the head by the remainder of n / 26 that keeps the sign
\* of n: n > 0 moves it n mod 26 places forward, n < 0 moves it |n| mod 26
\* places back, around the ring's end in both directions, and n = 0 leaves it;
\* on the rotor as built rotar(-1) puts the head on 'Z' and rotar(27) on 'B'.
C17_RotarResto ==
  hist # << >> =>
     LET n == UltimoGiro.n
         antes == UltimoGiro.antes - CH_A
         despues == UltimoGiro.despues - CH_A
     IN /\ getCabeza(miRotorDeMapeo) = UltimoGiro.despues
        /\ n > 0 => despues = (antes + AbsMod26(n)) % 26
        /\ n < 0 => despues = (antes - AbsMod26(n)) % 26
        /\ n = 0 => despues = antes
        /\ (Len(hist) = 1 /\ n = -1) => UltimoGiro.despues = CH_Z
        /\ (Len(hist) = 1 /\ n = 27) => UltimoGiro.despues = CH_B

\* C17's case: rotar(-27) with the head on 'A', which moves it back one place
\* around the ring's end to 'Z'.
C17_Testigo ==
  /\ Len(hist) = 2
  /\ hist[2] = [n |-> -27, antes |-> CH_A, despues |-> CH_Z]
  /\ getCabeza(miRotorDeMapeo) = CH_Z

\* C19: restricted to 'A'..'Z', getMapeo is a bijection onto 'A'..'Z' in every
\* rotor state: no two letters have the same image and every letter is one.
C19_MapeoBiyectivo ==
  LET imagen == {getMapeo(miRotorDeMapeo, c) : c \in Letras}
  IN /\ imagen = Letras
     /\ Cardinality(imagen) = Cardinality(Letras)

\* C19's case: with the head rotated to 'N', 'A' maps to 'N', 'M' to 'Z' and
\* 'N' around the ring's end to 'A'.
C19_Testigo ==
  /\ hist # << >>
  /\ UltimoGiro.antes # CH_N
  /\ getCabeza(miRotorDeMapeo) = CH_N
  /\ getMapeo(miRotorDeMapeo, CH_A) = CH_N
  /\ getMapeo(miRotorDeMapeo, CH_M) = CH_Z
  /\ getMapeo(miRotorDeMapeo, CH_N) = CH_A

====
